---- MODULE Spec2Model ----
(***************************************************************************)
(* Authentication and subscription gating of the MCL TV backend.           *)
(*                                                                         *)
(* Time is counted in minutes.  A UUID is an integer; its canonical text   *)
(* form is five hyphen-separated groups, its compact form is one run of    *)
(* 32 hex digits.  A transaction reference is the sequence of the pieces   *)
(* that str.split('-') yields.                                             *)
(*                                                                         *)
(* Handlers run from await to await.  A request is followed through every  *)
(* await of its handler after the first: at each of them it may be         *)
(* suspended while another request is served.  On commit its session       *)
(* writes the columns it has changed.                                      *)
(***************************************************************************)
EXTENDS Integers, Sequences, FiniteSets, TLC

(* ------------------------------ bounds -------------------------------- *)
MaxUsers  == 2      \* registrations the model follows
MaxTicks  == 2      \* clock advances the model follows
MaxMinted == 3      \* tokens the model keeps for later presentation
MaxTx     == 1      \* payment initiations the model follows
MaxActs   == 2      \* activation writes the model follows
MaxProbeTime == 7   \* latest instant fed to the entitlement predicate
MaxRequests == 1    \* requests suspended at an await at the same time
MaxOverlap == 1     \* requests served while another is suspended

(* ------------------------- program constants -------------------------- *)
ACCESS_TOKEN_EXPIRE_MINUTES == 120
REFRESH_TOKEN_EXPIRE_DAYS   == 7
MinutesPerDay == 24 * 60

(* ------------------------------ inputs -------------------------------- *)
Usernames == {"ann", "bob"}
Emails    == {"ann@x", "bob@x"}
Passwords == {"password1", "password2"}
RegisterPasswords == {"password1"}
Phone     == "0990000000"
TickSteps == {60, MinutesPerDay}

FirstId   == 1
PlanDay   == 101
PlanMonth == 102
NoPlanId  == 109                 \* a well-formed UUID that names no plan
TxBase    == 200                 \* uuid4 values drawn for references

NullTime == 0 - 1                \* subscription_expiry IS NULL
NoId     == 0                    \* a claim or key that is absent (None)

(* The subscription_plans table: id -> duration_days. *)
SubscriptionPlan == (PlanDay :> 1) @@ (PlanMonth :> 30)

(* ------------------------------- tokens ------------------------------- *)
NoToken ==
  [sub |-> "", user_id |-> NoId, email |-> "", phone |-> "",
   token_type |-> "", exp |-> 0, sig |-> "none"]

(* ----------------------------- principals ----------------------------- *)
NoUser ==
  [id |-> NoId, username |-> "", email |-> "", phone_number |-> "",
   hashed_password |-> "", is_admin |-> FALSE, is_subscribed |-> FALSE,
   subscription_expiry |-> NullTime, reset_token |-> NoToken]

get_password_hash(p) == "hash:" \o p
verify_password(p, h) == h = get_password_hash(p)

(* Variant: a new row starts with the flag set. *)
User_subscribed(i, username, email, password) ==
  [id |-> i, username |-> username, email |-> email, phone_number |-> Phone,
   hashed_password |-> get_password_hash(password), is_admin |-> FALSE,
   is_subscribed |-> TRUE, subscription_expiry |-> NullTime, reset_token |-> NoToken]

User(i, username, email, password) ==
  [id |-> i, username |-> username, email |-> email, phone_number |-> Phone,
   hashed_password |-> get_password_hash(password), is_admin |-> FALSE,
   is_subscribed |-> FALSE, subscription_expiry |-> NullTime, reset_token |-> NoToken]

(* Variant: the instant of expiry still counts as active. *)
is_subscription_active_inclusive(u, t) ==
  IF ~u.is_subscribed \/ u.subscription_expiry = NullTime
  THEN FALSE
  ELSE u.subscription_expiry >= t

is_subscription_active(u, t) ==
  IF ~u.is_subscribed \/ u.subscription_expiry = NullTime
  THEN FALSE
  ELSE u.subscription_expiry > t

(* Variant: the flag alone decides. *)
StatusIsActive_flagonly(u, t) == u.is_subscribed

(* §4.4 entitlement predicate, as computed inline by the status endpoint. *)
StatusIsActive(u, t) ==
  u.is_subscribed /\ (u.subscription_expiry = NullTime \/ u.subscription_expiry > t)

get_user_by_username(us, name) ==
  IF \E i \in DOMAIN us : us[i].username = name
  THEN us[CHOOSE i \in DOMAIN us : us[i].username = name]
  ELSE NoUser

(* Variant: the email column is not searched. *)
get_user_by_email_unchecked(us, mail) == NoUser

get_user_by_email(us, mail) ==
  IF \E i \in DOMAIN us : us[i].email = mail
  THEN us[CHOOSE i \in DOMAIN us : us[i].email = mail]
  ELSE NoUser

db_get_user(us, i) == IF i \in DOMAIN us THEN us[i] ELSE NoUser

authenticate_user(us, username, password) ==
  LET u == get_user_by_username(us, username)
  IN IF u = NoUser \/ ~verify_password(password, u.hashed_password)
     THEN NoUser ELSE u

(* --------------------------- session tokens --------------------------- *)
(* expires_delta: a timedelta in minutes; None and timedelta(0) are both *)
(* false, and `expires_delta or timedelta(...)` then takes the default.    *)
NoDelta == 0

create_access_token(data, t, delta) ==
  [data EXCEPT !.exp = t + (IF delta = NoDelta THEN ACCESS_TOKEN_EXPIRE_MINUTES ELSE delta),
               !.token_type = "access", !.sig = "ok"]

create_refresh_token(data, t, delta) ==
  [data EXCEPT !.exp = t + (IF delta = NoDelta THEN REFRESH_TOKEN_EXPIRE_DAYS * MinutesPerDay
                            ELSE delta),
               !.token_type = "refresh", !.sig = "ok"]

(* Variant: the principal id is left out of the claims. *)
AccessClaims_nouid(u) ==
  [NoToken EXCEPT !.sub = u.username, !.email = u.email, !.phone = u.phone_number]

AccessClaims(u) ==
  [NoToken EXCEPT !.sub = u.username, !.user_id = u.id,
                  !.email = u.email, !.phone = u.phone_number]

SubjectClaims(name) == [NoToken EXCEPT !.sub = name]

(* Variants: exp is not validated; the signature is not verified. *)
jwt_decode_ok_noexp(tok, t) == tok.sig = "ok"
jwt_decode_ok_nosig(tok, t) == ~(tok.exp < t)

(* jose.jwt.decode: the signature is verified first, then exp. *)
jwt_decode_ok(tok, t) == tok.sig = "ok" /\ ~(tok.exp < t)

(* Variant: the principal is looked up by the subject claim. *)
get_current_user_bysub(tok, us, t) ==
  IF ~jwt_decode_ok(tok, t) THEN [status |-> 401, user |-> NoUser]
  ELSE IF tok.token_type # "access" THEN [status |-> 401, user |-> NoUser]
  ELSE IF tok.user_id = NoId \/ tok.sub = "" THEN [status |-> 401, user |-> NoUser]
  ELSE IF get_user_by_username(us, tok.sub) = NoUser THEN [status |-> 401, user |-> NoUser]
  ELSE [status |-> 200, user |-> get_user_by_username(us, tok.sub)]

(* Variant: the principal is rebuilt from the claims once it is known to exist. *)
get_current_user_stale(tok, us, t) ==
  IF ~jwt_decode_ok(tok, t) THEN [status |-> 401, user |-> NoUser]
  ELSE IF tok.token_type # "access" THEN [status |-> 401, user |-> NoUser]
  ELSE IF tok.user_id = NoId \/ tok.sub = "" THEN [status |-> 401, user |-> NoUser]
  ELSE IF db_get_user(us, tok.user_id) = NoUser THEN [status |-> 401, user |-> NoUser]
  ELSE [status |-> 200,
        user |-> [db_get_user(us, tok.user_id) EXCEPT
                    !.username = tok.sub, !.email = tok.email, !.phone_number = tok.phone,
                    !.is_subscribed = FALSE, !.subscription_expiry = NullTime]]

get_current_user(tok, us, t) ==
  IF ~jwt_decode_ok(tok, t) THEN [status |-> 401, user |-> NoUser]
  ELSE IF tok.token_type # "access" THEN [status |-> 401, user |-> NoUser]
  ELSE IF tok.user_id = NoId \/ tok.sub = "" THEN [status |-> 401, user |-> NoUser]
  ELSE IF db_get_user(us, tok.user_id) = NoUser THEN [status |-> 401, user |-> NoUser]
  ELSE [status |-> 200, user |-> db_get_user(us, tok.user_id)]

(* Variant: the kind of the token is not looked at. *)
refresh_accepts_anykind(tok, t) == jwt_decode_ok(tok, t) /\ tok.sub # ""

(* What /auth/refresh requires of the token before it mints. *)
refresh_accepts(tok, t) ==
  jwt_decode_ok(tok, t) /\ tok.token_type = "refresh" /\ tok.sub # ""

(* Subscription guard of the video endpoints (§4.3 then §4.4). *)
get_current_subscribed_user(tok, us, t) ==
  LET r == get_current_user(tok, us, t)
  IN IF r.status # 200 THEN r
     ELSE IF StatusIsActive(r.user, t) THEN r
     ELSE [status |-> 403, user |-> NoUser]

(* Response-model validation of fastapi: every required field present. *)
TokenModelRequired == {"access_token", "user_id", "expires_at"}
SessionResponseKeys == {"access_token", "refresh_token", "token_type"}
serialize_response(keys, required) == IF required \subseteq keys THEN 200 ELSE 500

(* ----------------------- transaction references ---------------------- *)
Lit       == [k |-> "lit",   u |-> NoId, g |-> 0]     \* the text "sub"
Hex32(x)  == [k |-> "hex32", u |-> x,    g |-> 0]     \* 32 hex digits of x
Grp(x, n) == [k |-> "grp",   u |-> x,    g |-> n]     \* n-th group of str(x)

uuid_str(x) == <<Grp(x, 1), Grp(x, 2), Grp(x, 3), Grp(x, 4), Grp(x, 5)>>

(* f"sub-{current_user.id}-{uuid.uuid4()}", seen through split('-') *)
make_tx_ref(uid, tx) == <<Lit>> \o uuid_str(uid) \o uuid_str(tx)

(* uuid.UUID(text): only 32 hex digits form a UUID; NoId is ValueError. *)
uuid_UUID(seg) == IF seg.k = "hex32" THEN seg.u ELSE NoId

NoRef == << >>
KnownIds == FirstId .. (FirstId + MaxUsers - 1)
ProviderAnswers == {"successful", "failed", "raise"}

(* ------------------------------- state -------------------------------- *)
VARIABLES
  users,      \* the users table: id -> row
  nextId,     \* next uuid4 drawn for a user
  now,        \* datetime.utcnow(), minutes
  ticks,      \* clock advances so far
  minted,     \* tokens created so far, with who they were created for
  issued,     \* transaction references handed out by initiate-payment
  applied,    \* references whose activation has been written, in order (history)
  requests,   \* requests suspended at an await
  probe,      \* record under the entitlement predicate and its verdict
  res,        \* the last response
  act         \* the request the last step took up, and the await it got to

vars == <<users, nextId, now, ticks, minted, issued, applied, requests, probe, res, act>>

(* A response: the token the request carried, the token it hands out,   *)
(* the principal it concerns and the transaction reference it names; was  *)
(* is the row as the handler read it before it wrote to it; inp is what   *)
(* else the request met: the status field of a webhook payload (for the   *)
(* list of videos: what its category_id names), the answer of the payment *)
(* provider to the handler's call (of the mailer, of the videos table)    *)
(* and whether the provider's answer carries amount and currency;         *)
(* is_active is the field of that name in the body of the subscription    *)
(* status; payload is the body of an update that was carried out.         *)
In(status, answer, priced) == [status |-> status, answer |-> answer, priced |-> priced]
NoInput == In("", "", FALSE)

(* A UserUpdate body; a field that is not set holds Unset. *)
Unset == ""
NoPayload == [email |-> Unset, username |-> Unset, password |-> Unset]

R(op, status, tok, out, user, ref) ==
  [op |-> op, status |-> status, tok |-> tok, out |-> out, user |-> user, ref |-> ref,
   was |-> NoUser, inp |-> NoInput, is_active |-> FALSE, payload |-> NoPayload]

(* No response is pending: the previous request has been answered. *)
Idle == R("idle", 0, NoToken, NoToken, NoUser, NoRef)

(* No request: the last step took none up. *)
NoReq ==
  [op |-> "", pc |-> "", tok |-> NoToken, uid |-> NoId, was |-> NoUser, row |-> NoUser,
   ref |-> NoRef, plan |-> NoId, inp |-> NoInput, payload |-> NoPayload, seen |-> 0,
   met |-> 0]
NoAct == [q |-> NoReq, to |-> ""]

Init ==
  /\ users = [i \in {} |-> NoUser]
  /\ nextId = FirstId
  /\ now = 0
  /\ ticks = 0
  /\ minted = {}
  /\ issued = {}
  /\ applied = << >>
  /\ requests = << >>
  /\ probe = [checked |-> FALSE, is_subscribed |-> FALSE,
             subscription_expiry |-> NullTime, at |-> 0, active |-> FALSE]
  /\ res = Idle
  /\ act = NoAct

(* Tokens a request can carry: those created so far, the same with a     *)
(* signature that does not verify, and text that is no token at all.       *)
Held == {m.tok : m \in minted} \cup {NoToken}
Presentable == Held \cup {[m.tok EXCEPT !.sig = "bad"] : m \in minted}

(* Clients keep the tokens they will present later; beyond MaxMinted a   *)
(* new token is created and returned all the same, but not kept.           *)
Keep(ms, m) == IF Cardinality(ms \cup {m}) <= MaxMinted THEN ms \cup {m} ELSE ms
Minting(ms, entries) ==
  LET a == CHOOSE m \in entries : m.tok.token_type = "access"
  IN IF entries = {a} THEN Keep(ms, a)
     ELSE Keep(Keep(ms, a), CHOOSE m \in entries : m # a)
Mint(entries) == minted' = Minting(minted, entries)

SessionTokens(u, by) ==
  {[tok |-> create_access_token(AccessClaims(u), now, ACCESS_TOKEN_EXPIRE_MINUTES),
    by |-> by, uid |-> u.id],
   [tok |-> create_refresh_token(SubjectClaims(u.username), now,
                                 REFRESH_TOKEN_EXPIRE_DAYS * MinutesPerDay),
    by |-> by, uid |-> u.id]}

AccessOf(entries) == (CHOOSE m \in entries : m.tok.token_type = "access").tok

(* ---------------------- requests at their awaits ---------------------- *)
(* A handler runs from one await to the next without interruption.  At    *)
(* an await it either runs on at once or is suspended while other         *)
(* requests run.  A request: uid is the id of the row it is about, was    *)
(* that row as the handler read it, row the object as the handler left    *)
(* it, plan the id of the plan it names, seen the number of activations   *)
(* written before it began, pc the await it stands at, met the number of  *)
(* times another request ran while it was suspended.                      *)
Req(op, pc, tok, uid, was, row, ref) ==
  [op |-> op, pc |-> pc, tok |-> tok, uid |-> uid, was |-> was, row |-> row,
   ref |-> ref, plan |-> NoId, inp |-> NoInput, payload |-> NoPayload,
   seen |-> Len(applied), met |-> 0]

(* Another request runs while these are suspended. *)
Room == \A k \in 1 .. Len(requests) : requests[k].met < MaxOverlap
MetBy(qs) == [k \in 1 .. Len(qs) |-> [qs[k] EXCEPT !.met = @ + 1]]

(* What a request meets and changes besides itself. *)
World ==
  [users |-> users, nextId |-> nextId, minted |-> minted, issued |-> issued,
   applied |-> applied]

(* Where a request stands after a stretch of its handler, with the answer *)
(* once it is done.                                                        *)
Out(w, q, r) == [w |-> w, q |-> q, res |-> r]
Done(q) == [q EXCEPT !.pc = "done"]

(* The suspended requests other than the k-th. *)
Rest(k) == SubSeq(requests, 1, k - 1) \o SubSeq(requests, k + 1, Len(requests))

(* Requests of the handlers ops that have not yet written. *)
Pending(ops) ==
  Cardinality({k \in 1 .. Len(requests) :
                 requests[k].op \in ops /\ requests[k].pc \notin {"refresh", "mail"}})

(* The store without the principal i. *)
Without(us, i) == [j \in DOMAIN us \ {i} |-> us[j]]

(* Variant: the table has no unique index. *)
UniqueViolation_off(us, i, u) == FALSE

(* unique=True on users.username and users.email *)
UniqueViolation(us, i, u) ==
  \E j \in DOMAIN us \ {i} : us[j].username = u.username \/ us[j].email = u.email

(* The unit of work of a session: the columns whose value the handler     *)
(* changed, and the row of the table after an UPDATE of those columns.     *)
Dirty(q) == {c \in DOMAIN q.was : q.row[c] # q.was[c]}
Flushed(cur, q) == [c \in DOMAIN cur |-> IF c \in Dirty(q) THEN q.row[c] ELSE cur[c]]

(* await db.commit() of a request that holds a row: nothing to do when no *)
(* column changed; StaleDataError when the UPDATE matches no row;          *)
(* IntegrityError when it breaks a unique index.                           *)
flush(us, q) ==
  IF Dirty(q) = {} THEN [ok |-> TRUE, users |-> us]
  ELSE IF q.uid \notin DOMAIN us THEN [ok |-> FALSE, users |-> us]
  ELSE IF UniqueViolation(us, q.uid, Flushed(us[q.uid], q)) THEN [ok |-> FALSE, users |-> us]
  ELSE [ok |-> TRUE, users |-> [us EXCEPT ![q.uid] = Flushed(@, q)]]

(* ------------------- handlers from their first await ------------------ *)
(* register, the second existence check (await db.execute): the email,  *)
(* then the new object.                                                    *)
RegisterCheck(q, w) ==
  IF get_user_by_email(w.users, q.row.email) # NoUser
  THEN Out(w, Done(q), R("register", 400, NoToken, NoToken, NoUser, NoRef))
  ELSE Out(w, [q EXCEPT !.pc = "commit"], Idle)

(* register, await db.commit(): the INSERT draws the id and meets the     *)
(* unique indexes; an IntegrityError is not caught and leaves as 500, the  *)
(* row that was refused being reported in was.                             *)
RegisterCommit(q, w) ==
  IF UniqueViolation(w.users, NoId, q.row)
  THEN Out(w, Done(q),
           [R("register", 500, NoToken, NoToken, NoUser, NoRef) EXCEPT !.was = q.row])
  ELSE Out([w EXCEPT !.users = @ @@ (w.nextId :> [q.row EXCEPT !.id = w.nextId]),
                     !.nextId = @ + 1],
           [q EXCEPT !.pc = "refresh", !.uid = w.nextId], Idle)

(* register, await db.refresh(new_user), then the session tokens from the *)
(* row as it is now; a row that is gone makes the refresh raise.           *)
RegisterRefresh(q, w) ==
  LET ts == SessionTokens(w.users[q.uid], "register")
  IN IF q.uid \notin DOMAIN w.users
     THEN Out(w, Done(q), R("register", 500, NoToken, NoToken, NoUser, NoRef))
     ELSE Out([w EXCEPT !.minted = Minting(@, ts)], Done(q),
              R("register", serialize_response(SessionResponseKeys, TokenModelRequired),
                NoToken, AccessOf(ts), w.users[q.uid], NoRef))

(* crud.get_user, a SELECT by id in the session of the request: no row,  *)
(* no object; a row whose id the session has already loaded (the caller,  *)
(* by get_current_user) yields that object with its attributes as they    *)
(* were loaded; any other row is loaded as it is now.                      *)
crud_get_user(us, i, held) ==
  IF db_get_user(us, i) = NoUser THEN NoUser
  ELSE IF held.id = i THEN held
  ELSE us[i]

(* delete_user, await crud.get_user: the target. *)
DeleteTarget(q, w) ==
  LET u == crud_get_user(w.users, q.uid, q.was)
  IN IF u = NoUser
     THEN Out(w, Done(q), R("delete_user", 404, q.tok, NoToken, NoUser, NoRef))
     ELSE Out(w, [q EXCEPT !.pc = "delete", !.was = u, !.row = u], Idle)

(* crud.delete_user, await db.delete(user): the object is marked in the   *)
(* session; the table is not written before the commit.                   *)
DeleteMark(q, w) == Out(w, [q EXCEPT !.pc = "commit"], Idle)

(* crud.delete_user, await db.commit(): the DELETE; one that matches no   *)
(* row is only warned about.                                               *)
DeleteCommit(q, w) ==
  Out([w EXCEPT !.users = Without(@, q.uid)], Done(q),
      R("delete_user", 200, q.tok, NoToken, q.was, NoRef))

(* Variant: a password in the payload is hashed into the row. *)
crud_update_user_hashing(u, payload) ==
  [c \in DOMAIN u |->
     IF c = "hashed_password" /\ payload.password # Unset
     THEN get_password_hash(payload.password)
     ELSE IF c \in DOMAIN payload /\ payload[c] # Unset THEN payload[c] ELSE u[c]]

(* crud.update_user: setattr for every field the payload sets; a name    *)
(* that is no column of the table (password) is an attribute of the       *)
(* object only and is gone after the refresh.                              *)
crud_update_user(u, payload) ==
  [c \in DOMAIN u |->
     IF c \in DOMAIN payload /\ payload[c] # Unset THEN payload[c] ELSE u[c]]

(* update_user, await crud.get_user: the target, then the setattrs. *)
UpdateTarget(q, w) ==
  LET u == crud_get_user(w.users, q.uid, q.was)
  IN IF u = NoUser
     THEN Out(w, Done(q),
              [R("update_user", 404, q.tok, NoToken, NoUser, NoRef)
                 EXCEPT !.payload = q.payload])
     ELSE Out(w, [q EXCEPT !.pc = "commit", !.was = u,
                           !.row = crud_update_user(u, q.payload)], Idle)

(* crud.update_user, await db.commit(): neither StaleDataError nor        *)
(* IntegrityError is caught.                                               *)
UpdateCommit(q, w) ==
  LET f == flush(w.users, q)
  IN IF f.ok
     THEN Out([w EXCEPT !.users = f.users], [q EXCEPT !.pc = "refresh"], Idle)
     ELSE Out(w, Done(q),
              [R("update_user", 500, q.tok, NoToken, NoUser, NoRef)
                 EXCEPT !.payload = q.payload])

(* crud.update_user, await db.refresh(user): the answer is the row as it  *)
(* is now.                                                                 *)
UpdateRefresh(q, w) ==
  IF q.uid \notin DOMAIN w.users
  THEN Out(w, Done(q),
           [R("update_user", 500, q.tok, NoToken, NoUser, NoRef)
              EXCEPT !.payload = q.payload])
  ELSE Out(w, Done(q),
           [R("update_user", 200, q.tok, NoToken, w.users[q.uid], NoRef)
              EXCEPT !.was = q.was, !.payload = q.payload])

(* forgot_password, await db.commit(); a failed commit is not caught.     *)
(* The token is on its way to the mailbox from here on.                    *)
ForgotCommit(q, w) ==
  LET f == flush(w.users, q)
  IN IF f.ok
     THEN Out([w EXCEPT !.users = f.users,
                        !.minted = Keep(@, [tok |-> q.row.reset_token,
                                            by |-> "forgot_password", uid |-> q.uid])],
              [q EXCEPT !.pc = "mail"], Idle)
     ELSE Out(w, Done(q), R("forgot_password", 500, NoToken, NoToken, NoUser, NoRef))

(* forgot_password, await utils.send_reset_email: a failed delivery is    *)
(* not caught.                                                             *)
ForgotMail(q, w) ==
  Out(w, Done(q),
      [R("forgot_password", IF q.inp.answer = "sent" THEN 200 ELSE 500,
         NoToken, q.row.reset_token, q.row, NoRef)
         EXCEPT !.was = q.was])

(* reset_password, await db.commit(). *)
ResetCommit(q, w) ==
  LET f == flush(w.users, q)
  IN IF f.ok
     THEN Out([w EXCEPT !.users = f.users], Done(q),
              [R("reset_password", 200, q.tok, NoToken, q.row, NoRef) EXCEPT !.was = q.was])
     ELSE Out(w, Done(q), R("reset_password", 500, q.tok, NoToken, NoUser, NoRef))

Raised == 599          \* an exception that is not an HTTPException

(* `except Exception` around the body of verify_payment: whatever was     *)
(* raised inside, HTTPException included, leaves as 400.                  *)
except_Exception(status) == IF status = 200 THEN 200 ELSE 400

(* `except Exception` around the body of paychangu_webhook: the handler   *)
(* evaluates status.HTTP_400_BAD_REQUEST, where status is by then the      *)
(* text of the payload's status field; the AttributeError leaves as 500.   *)
webhook_except(status) == IF status = 200 THEN 200 ELSE 500

(* PaymentVerificationResponse: amount and currency come from the         *)
(* provider's answer and are required.                                     *)
VerificationRequired ==
  {"status", "amount", "currency", "transaction_reference", "payment_date",
   "plan_id", "expiry_date"}
VerificationKeys(priced) ==
  {"status", "transaction_reference", "payment_date", "plan_id", "expiry_date"}
    \cup (IF priced THEN {"amount", "currency"} ELSE {})

(* Variant: the expiry is set to the moment of the write. *)
activate_noduration(u, plan, t) ==
  [u EXCEPT !.is_subscribed = TRUE, !.subscription_expiry = t]

activate(u, plan, t) ==
  [u EXCEPT !.is_subscribed = TRUE,
            !.subscription_expiry = t + SubscriptionPlan[plan] * MinutesPerDay]

(* initiate_subscription_payment, await db.get(SubscriptionPlan): the     *)
(* plan, the new reference and the provider's answer to the charge.        *)
InitiatePlan(q, w) ==
  LET ref == make_tx_ref(q.was.id, TxBase + Cardinality(w.issued))
  IN IF q.plan \notin DOMAIN SubscriptionPlan
     THEN Out(w, Done(q), R("initiate_payment", 404, q.tok, NoToken, q.was, NoRef))
     ELSE IF q.inp.answer = "raise"
     THEN Out(w, Done(q), R("initiate_payment", 400, q.tok, NoToken, q.was, NoRef))
     ELSE Out([w EXCEPT !.issued = @ \cup {ref}], Done(q),
              R("initiate_payment", 200, q.tok, NoToken, q.was, ref))

(* verify_payment, await db.get(SubscriptionPlan) inside the try: the     *)
(* plan, then the new values on the caller's object.                       *)
VerifyPlan(q, w) ==
  IF q.plan \notin DOMAIN SubscriptionPlan
  THEN Out(w, Done(q),
           [R("verify_payment", except_Exception(404), q.tok, NoToken, q.was, q.ref)
              EXCEPT !.inp = In("", q.inp.answer, FALSE)])
  ELSE Out(w, [q EXCEPT !.pc = "commit", !.row = activate(q.was, q.plan, now)], Idle)

(* paychangu_webhook, await db.get(SubscriptionPlan) inside the try: the  *)
(* plan, then the new values on the user's object if both were found.      *)
WebhookPlan(q, w) ==
  IF q.was # NoUser /\ q.plan \in DOMAIN SubscriptionPlan
  THEN Out(w, [q EXCEPT !.pc = "commit", !.row = activate(q.was, q.plan, now)], Idle)
  ELSE Out(w, Done(q),
           [R("webhook", 200, NoToken, NoToken, NoUser, q.ref) EXCEPT !.inp = q.inp])

(* get_subscription_status, await db.execute: the plan whose duration     *)
(* equals the days that are left; is_active was computed before, from the *)
(* caller's object.                                                        *)
StatusPlan(q, w) ==
  Out(w, Done(q),
      [R("subscription_status", 200, q.tok, NoToken, q.was, NoRef)
         EXCEPT !.is_active = StatusIsActive(q.was, now)])

VideoEndpoints == {"read_videos", "read_video", "get_recent_videos", "search_videos"}

(* What the videos table yields for the request's query. *)
VideoRows == {"video", "no video"}

(* What the category_id of a request for the list names. *)
CategoryIds == {"none", "known", "unknown"}

(* The answer after the query.  A row that is found has to pass through   *)
(* VideoResponse, whose category_id is required and is never supplied:     *)
(* the answer is 500.  Without a row the lists are empty and the detail    *)
(* endpoint answers 404.                                                    *)
video_handler(ep, rows) ==
  IF rows = "video" THEN 500
  ELSE IF ep = "read_video" THEN 404
  ELSE 200

VideoAnswer(q, status) ==
  [R(q.op, status, q.tok, NoToken, q.was, NoRef) EXCEPT !.inp = q.inp]

(* crud.get_all_videos, await get_category: a category_id that names no   *)
(* category.                                                               *)
VideoCategory(q, w) ==
  IF q.inp.status = "unknown"
  THEN Out(w, Done(q), VideoAnswer(q, 404))
  ELSE Out(w, [q EXCEPT !.pc = "query"], Idle)

(* The handler's query (await db.execute); get_all_videos goes on to      *)
(* count the likes and the comments of each row.                           *)
VideoQuery(q, w) ==
  IF q.op = "read_videos" /\ q.inp.answer = "video"
  THEN Out(w, [q EXCEPT !.pc = "likes"], Idle)
  ELSE Out(w, Done(q), VideoAnswer(q, video_handler(q.op, q.inp.answer)))

(* crud.get_all_videos, await get_like_count and await get_comment_count. *)
VideoLikes(q, w) == Out(w, [q EXCEPT !.pc = "comments"], Idle)
VideoComments(q, w) == Out(w, Done(q), VideoAnswer(q, video_handler(q.op, q.inp.answer)))

(* verify_payment, await db.commit() inside the try: a StaleDataError     *)
(* leaves as 400; then the answer passes through the response model.       *)
VerifyCommit(q, w) ==
  LET f == flush(w.users, q)
  IN IF f.ok
     THEN Out([w EXCEPT !.users = f.users, !.applied = Append(@, q.ref)], Done(q),
              [R("verify_payment",
                 serialize_response(VerificationKeys(q.inp.priced), VerificationRequired),
                 q.tok, NoToken, q.row, q.ref)
                 EXCEPT !.was = q.was, !.inp = q.inp])
     ELSE Out(w, Done(q),
              [R("verify_payment", except_Exception(Raised), q.tok, NoToken, NoUser, q.ref)
                 EXCEPT !.inp = q.inp])

(* paychangu_webhook, await db.commit() inside the try: a StaleDataError  *)
(* reaches the except clause and leaves as 500.                            *)
WebhookCommit(q, w) ==
  LET f == flush(w.users, q)
  IN IF f.ok
     THEN Out([w EXCEPT !.users = f.users, !.applied = Append(@, q.ref)], Done(q),
              [R("webhook", 200, NoToken, NoToken, q.row, q.ref)
                 EXCEPT !.was = q.was, !.inp = q.inp])
     ELSE Out(w, Done(q),
              [R("webhook", webhook_except(Raised), NoToken, NoToken, NoUser, q.ref)
                 EXCEPT !.inp = q.inp])

(* The stretch of its handler that a request runs from the await it       *)
(* stands at.                                                              *)
Phase(q, w) ==
  CASE q.op = "register" /\ q.pc = "check" -> RegisterCheck(q, w)
    [] q.op = "register" /\ q.pc = "commit" -> RegisterCommit(q, w)
    [] q.op = "register" /\ q.pc = "refresh" -> RegisterRefresh(q, w)
    [] q.op = "delete_user" /\ q.pc = "target" -> DeleteTarget(q, w)
    [] q.op = "delete_user" /\ q.pc = "delete" -> DeleteMark(q, w)
    [] q.op = "delete_user" /\ q.pc = "commit" -> DeleteCommit(q, w)
    [] q.op = "update_user" /\ q.pc = "target" -> UpdateTarget(q, w)
    [] q.op = "update_user" /\ q.pc = "commit" -> UpdateCommit(q, w)
    [] q.op = "update_user" /\ q.pc = "refresh" -> UpdateRefresh(q, w)
    [] q.op = "forgot_password" /\ q.pc = "commit" -> ForgotCommit(q, w)
    [] q.op = "forgot_password" /\ q.pc = "mail" -> ForgotMail(q, w)
    [] q.op = "reset_password" -> ResetCommit(q, w)
    [] q.op = "initiate_payment" -> InitiatePlan(q, w)
    [] q.op = "verify_payment" /\ q.pc = "plan" -> VerifyPlan(q, w)
    [] q.op = "verify_payment" /\ q.pc = "commit" -> VerifyCommit(q, w)
    [] q.op = "webhook" /\ q.pc = "plan" -> WebhookPlan(q, w)
    [] q.op = "webhook" /\ q.pc = "commit" -> WebhookCommit(q, w)
    [] q.op = "subscription_status" -> StatusPlan(q, w)
    [] q.op \in VideoEndpoints /\ q.pc = "category" -> VideoCategory(q, w)
    [] q.op \in VideoEndpoints /\ q.pc = "query" -> VideoQuery(q, w)
    [] q.op \in VideoEndpoints /\ q.pc = "likes" -> VideoLikes(q, w)
    [] q.op \in VideoEndpoints /\ q.pc = "comments" -> VideoComments(q, w)

(* Where a request can be when the next request is scheduled: past one    *)
(* stretch, or past the stretches after it as well.                        *)
RECURSIVE Onward(_, _)
Onward(q, w) ==
  LET a == Phase(q, w)
  IN IF a.q.pc = "done" THEN {a} ELSE {a} \cup Onward(a.q, a.w)

(* The request q gets as far as one of outs; rest are the other           *)
(* suspended requests.  A request that is suspended where it stood has     *)
(* taken no step.                                                          *)
Proceed(q, rest, outs) ==
  \E o \in outs :
    /\ users' = o.w.users
    /\ nextId' = o.w.nextId
    /\ minted' = o.w.minted
    /\ issued' = o.w.issued
    /\ applied' = o.w.applied
    /\ act' = IF o.q.pc = q.pc THEN NoAct ELSE [q |-> q, to |-> o.q.pc]
    /\ IF o.q.pc = "done"
       THEN /\ res' = o.res
            /\ requests' = rest
       ELSE /\ Len(rest) < MaxRequests
            /\ requests' = Append(rest, o.q)
            /\ res' = Idle

(* A handler has reached its first await: it is suspended there or runs on. *)
Start(q) ==
  /\ Room
  /\ Proceed(q, MetBy(requests), {Out(World, q, Idle)} \cup Onward(q, World))

(* A handler answers before it has changed anything. *)
Answer(r) ==
  /\ Room
  /\ res' = r
  /\ act' = NoAct
  /\ requests' = MetBy(requests)
  /\ UNCHANGED <<users, nextId, minted, issued, applied>>

(* ------------------------------ actions ------------------------------- *)
(* The clock's unit is longer than a request takes: it advances between   *)
(* requests.                                                               *)
Tick(d) ==
  /\ res = Idle
  /\ requests = << >>
  /\ ticks < MaxTicks
  /\ now' = now + d
  /\ ticks' = ticks + 1
  /\ act' = NoAct
  /\ UNCHANGED <<users, nextId, minted, issued, applied, requests, probe, res>>

(* The response leaves the server and the request's session is closed. *)
Respond ==
  /\ res # Idle
  /\ res' = Idle
  /\ act' = NoAct
  /\ UNCHANGED <<users, nextId, now, ticks, minted, issued, applied, requests, probe>>

(* The event loop resumes a suspended request.  It is suspended again at *)
(* a later await only where something else can run meanwhile: another     *)
(* suspended request, or one more request that is served.                  *)
Resume(k) ==
  /\ res = Idle
  /\ LET q == requests[k]
         outs == Onward(q, World)
     IN Proceed(q, MetBy(Rest(k)),
                IF Rest(k) = << >> /\ (q.met = 0 \/ q.met >= MaxOverlap)
                THEN {o \in outs : o.q.pc = "done"}
                ELSE outs)
  /\ UNCHANGED <<now, ticks, probe>>

(* register: the first existence check (await db.execute), the username. *)
Register(username, email, password) ==
  /\ res = Idle
  /\ IF get_user_by_username(users, username) # NoUser
     THEN Answer(R("register", 400, NoToken, NoToken, NoUser, NoRef))
     ELSE /\ nextId + Pending({"register"}) < FirstId + MaxUsers
          /\ Start(Req("register", "check", NoToken, NoId, NoUser,
                       User(NoId, username, email, password), NoRef))
  /\ UNCHANGED <<now, ticks, probe>>

(* What the caller of login observes besides the tokens. *)
LoginRefused ==
  [status |-> 401, detail |-> "Incorrect username or password",
   headers |-> "WWW-Authenticate: Bearer"]

(* Variant: an unknown username gets an answer of its own. *)
login_answer_telling(us, username, password) ==
  IF get_user_by_username(us, username) = NoUser
  THEN [status |-> 404, detail |-> "User not found", headers |-> ""]
  ELSE IF authenticate_user(us, username, password) = NoUser THEN LoginRefused
  ELSE [status |-> serialize_response(SessionResponseKeys, TokenModelRequired),
        detail |-> "", headers |-> ""]

login_answer(us, username, password) ==
  IF authenticate_user(us, username, password) = NoUser THEN LoginRefused
  ELSE [status |-> serialize_response(SessionResponseKeys, TokenModelRequired),
        detail |-> "", headers |-> ""]

Login(username, password) ==
  /\ res = Idle
  /\ LET u == authenticate_user(users, username, password)
         ts == SessionTokens(u, "login")
     IN IF u = NoUser
        THEN /\ res' = R("login", login_answer(users, username, password).status,
                         NoToken, NoToken, NoUser, NoRef)
             /\ UNCHANGED minted
        ELSE /\ Mint(ts)
             /\ res' = R("login", login_answer(users, username, password).status,
                         NoToken, AccessOf(ts), u, NoRef)
  /\ Room
  /\ requests' = MetBy(requests)
  /\ act' = NoAct
  /\ UNCHANGED <<users, nextId, now, ticks, issued, applied, probe>>

RefreshToken(tok) ==
  /\ res = Idle
  /\ IF ~refresh_accepts(tok, now)
     THEN /\ res' = R("refresh", 401, tok, NoToken, NoUser, NoRef)
          /\ UNCHANGED minted
     ELSE LET a == create_access_token(SubjectClaims(tok.sub), now, ACCESS_TOKEN_EXPIRE_MINUTES)
          IN /\ Mint({[tok |-> a, by |-> "refresh", uid |-> NoId]})
             /\ res' = R("refresh", serialize_response({"access_token", "token_type"}, TokenModelRequired),
                         tok, a, NoUser, NoRef)
  /\ Room
  /\ requests' = MetBy(requests)
  /\ act' = NoAct
  /\ UNCHANGED <<users, nextId, now, ticks, issued, applied, probe>>

(* GET /auth/verify-token: the bare get_current_user dependency. *)
VerifyToken(tok) ==
  /\ res = Idle
  /\ LET r == get_current_user(tok, users, now)
     IN Answer(R("verify_token", r.status, tok, NoToken, r.user, NoRef))
  /\ UNCHANGED <<now, ticks, probe>>

(* A video endpoint: the subscription guard, then the handler up to its  *)
(* first await; cat is what the category_id of a request for the list     *)
(* names, rows what the handler's query will find.                         *)
ReadVideos(ep, tok, rows, cat) ==
  /\ res = Idle
  /\ LET r == get_current_subscribed_user(tok, users, now)
     IN IF r.status # 200
        THEN Answer(R(ep, r.status, tok, NoToken, NoUser, NoRef))
        ELSE Start([Req(ep, IF ep = "read_videos" /\ cat # "none" THEN "category"
                            ELSE "query",
                        tok, r.user.id, r.user, r.user, NoRef)
                      EXCEPT !.inp = In(cat, rows, FALSE)])
  /\ UNCHANGED <<now, ticks, probe>>

(* delete_user: the caller. *)
DeleteUser(tok, target) ==
  /\ res = Idle
  /\ LET r == get_current_user(tok, users, now)
     IN IF r.status # 200
        THEN Answer(R("delete_user", r.status, tok, NoToken, NoUser, NoRef))
        ELSE Start(Req("delete_user", "target", tok, target, r.user, r.user, NoRef))
  /\ UNCHANGED <<now, ticks, probe>>

(* update_user: the caller and the admin test. *)
UpdateUser(tok, target, payload) ==
  /\ res = Idle
  /\ LET r == get_current_user(tok, users, now)
     IN IF r.status # 200
        THEN Answer(R("update_user", r.status, tok, NoToken, NoUser, NoRef))
        ELSE IF r.user.is_admin
        THEN Answer(R("update_user", 403, tok, NoToken, NoUser, NoRef))
        ELSE Start([Req("update_user", "target", tok, target, r.user, r.user, NoRef)
                      EXCEPT !.payload = payload])
  /\ UNCHANGED <<now, ticks, probe>>

(* initiate_subscription_payment: the caller; up: the provider accepts    *)
(* the charge.                                                             *)
InitiatePayment(tok, plan, up) ==
  /\ res = Idle
  /\ LET r == get_current_user(tok, users, now)
     IN IF r.status # 200
        THEN Answer(R("initiate_payment", r.status, tok, NoToken, NoUser, NoRef))
        ELSE /\ (plan \in DOMAIN SubscriptionPlan /\ up)
                  => Cardinality(issued) + Pending({"initiate_payment"}) < MaxTx
             /\ Start([Req("initiate_payment", "plan", tok, r.user.id, r.user, r.user,
                           NoRef)
                         EXCEPT !.plan = plan,
                                !.inp = In("", IF up THEN "accepted" ELSE "raise", FALSE)])
  /\ UNCHANGED <<now, ticks, probe>>

(* GET /subscriptions/status: the caller's row and the predicate on it;  *)
(* a row with an expiry makes the handler look for the plan.               *)
SubscriptionStatus(tok) ==
  /\ res = Idle
  /\ LET r == get_current_user(tok, users, now)
     IN IF r.status # 200
        THEN Answer(R("subscription_status", r.status, tok, NoToken, NoUser, NoRef))
        ELSE IF r.user.subscription_expiry = NullTime
        THEN Answer([R("subscription_status", 200, tok, NoToken, r.user, NoRef)
                       EXCEPT !.is_active = StatusIsActive(r.user, now)])
        ELSE Start(Req("subscription_status", "plan", tok, r.user.id, r.user, r.user,
                       NoRef))
  /\ UNCHANGED <<now, ticks, probe>>

(* --------------------------- password reset --------------------------- *)
RESET_TOKEN_EXPIRE_MINUTES == 30
ResetTokenLength == 32      \* ResetPasswordRequest.token: min_length = max_length
PasswordMinLength == 8      \* ResetPasswordRequest.new_password: min_length
JwtMinLength == 105         \* HS256 header (36) + "." + claims sub, exp (24 or more) + "." + signature (43)

create_reset_token(email, t) ==
  [NoToken EXCEPT !.sub = email, !.exp = t + RESET_TOKEN_EXPIRE_MINUTES, !.sig = "ok"]

(* The text of a request's token field: its length and the token it      *)
(* decodes to (NoToken: the text is no JWT).                               *)
jwt_text(tok) == [len |-> JwtMinLength, jwt |-> tok]

(* Validation of ResetPasswordRequest before the handler runs: token of  *)
(* exactly 32 characters, new_password of 8 or more.                       *)
request_valid(text, new_password) ==
  text.len = ResetTokenLength /\ Len(new_password) >= PasswordMinLength

(* jwt.decode of PyJWT: signature, then exp, which must lie ahead. *)
pyjwt_decode_ok(tok, t) == tok.sig = "ok" /\ tok.exp > t

(* forgot_password: the user of the email and the new token on the object. *)
ForgotPassword(email, mail) ==
  /\ res = Idle
  /\ LET u == get_user_by_email(users, email)
     IN IF u = NoUser
        THEN Answer(R("forgot_password", 404, NoToken, NoToken, NoUser, NoRef))
        ELSE Start([Req("forgot_password", "commit", NoToken, u.id, u,
                        [u EXCEPT !.reset_token = create_reset_token(email, now)], NoRef)
                      EXCEPT !.inp = In("", mail, FALSE)])
  /\ UNCHANGED <<now, ticks, probe>>

(* reset_password: validation, decoding, the stored token, the new hash. *)
ResetPassword(text, new_password) ==
  /\ res = Idle
  /\ LET u == get_user_by_email(users, text.jwt.sub)
     IN IF ~request_valid(text, new_password)
        THEN Answer(R("reset_password", 422, text.jwt, NoToken, NoUser, NoRef))
        ELSE IF ~pyjwt_decode_ok(text.jwt, now) \/ text.jwt.sub = ""
        THEN Answer(R("reset_password", 400, text.jwt, NoToken, NoUser, NoRef))
        ELSE IF u = NoUser \/ u.reset_token # text.jwt
        THEN Answer(R("reset_password", 400, text.jwt, NoToken, NoUser, NoRef))
        ELSE Start(Req("reset_password", "commit", text.jwt, u.id, u,
                       [u EXCEPT !.hashed_password = get_password_hash(new_password),
                                 !.reset_token = NoToken], NoRef))
  /\ UNCHANGED <<now, ticks, probe>>

(* ---------------------- subscription activation ----------------------- *)
(* References a caller may present: those initiate-payment issued and   *)
(* crafted ones in the format verify_payment and the webhook read.        *)
RefInputs ==
  issued
    \cup {<<Lit, Hex32(a), Hex32(PlanDay)>> : a \in KnownIds}
    \cup {<<Lit, Hex32(FirstId), Hex32(PlanMonth)>>,
          <<Lit, Hex32(FirstId), Hex32(NoPlanId)>>,
          <<Lit, Hex32(PlanDay)>>}

(* Body of verify_payment up to its await: status raised or 200, and    *)
(* the id that the reference gives for the plan.                           *)
verify_payment_body(ref, answer) ==
  IF answer = "raise" THEN [status |-> Raised, plan |-> NoId]
  ELSE IF answer # "successful" THEN [status |-> 402, plan |-> NoId]
  ELSE IF Len(ref) < 3 THEN [status |-> 400, plan |-> NoId]
  ELSE IF uuid_UUID(ref[3]) = NoId THEN [status |-> Raised, plan |-> NoId]
  ELSE [status |-> 200, plan |-> uuid_UUID(ref[3])]

(* verify_payment: the caller, the provider's answer and the pieces of   *)
(* the reference; priced: the provider's answer carries amount and        *)
(* currency, which the handler reads only when it builds its answer.      *)
VerifyPayment(tok, ref, answer, priced) ==
  /\ res = Idle
  /\ LET r == get_current_user(tok, users, now)
         b == verify_payment_body(ref, answer)
     IN IF r.status # 200
        THEN Answer(R("verify_payment", r.status, tok, NoToken, NoUser, ref))
        ELSE IF b.status # 200
        THEN Answer([R("verify_payment", except_Exception(b.status), tok, NoToken,
                       r.user, ref)
                       EXCEPT !.inp = In("", answer, FALSE)])
        ELSE /\ b.plan \in DOMAIN SubscriptionPlan
                  => Len(applied) + Pending({"verify_payment", "webhook"}) < MaxActs
             /\ Start([Req("verify_payment", "plan", tok, r.user.id, r.user, r.user, ref)
                         EXCEPT !.plan = b.plan,
                                !.inp = In("", answer, priced)])
  /\ UNCHANGED <<now, ticks, probe>>

(* Body of paychangu_webhook up to its first await: status raised or     *)
(* 200, and the ids that the reference gives for the user and the plan.   *)
paychangu_webhook_body(ref, status, answer) ==
  IF status # "successful" THEN [status |-> 200, uid |-> NoId, plan |-> NoId]
  ELSE IF answer = "raise" THEN [status |-> Raised, uid |-> NoId, plan |-> NoId]
  ELSE IF Len(ref) < 3 THEN [status |-> 400, uid |-> NoId, plan |-> NoId]
  ELSE IF uuid_UUID(ref[2]) = NoId \/ uuid_UUID(ref[3]) = NoId
       THEN [status |-> Raised, uid |-> NoId, plan |-> NoId]
  ELSE [status |-> 200, uid |-> uuid_UUID(ref[2]), plan |-> uuid_UUID(ref[3])]

(* paychangu_webhook: the payload, the provider, the pieces of the       *)
(* reference and the user it names (await db.get(User)).                   *)
Webhook(ref, status, answer) ==
  /\ res = Idle
  /\ LET b == paychangu_webhook_body(ref, status, answer)
         u == db_get_user(users, b.uid)
     IN IF b.uid = NoId
        THEN Answer([R("webhook", webhook_except(b.status), NoToken, NoToken, NoUser, ref)
                       EXCEPT !.inp = In(status, answer, FALSE)])
        ELSE /\ (u # NoUser /\ b.plan \in DOMAIN SubscriptionPlan)
                  => Len(applied) + Pending({"verify_payment", "webhook"}) < MaxActs
             /\ Start([Req("webhook", "plan", NoToken, b.uid, u, u, ref)
                         EXCEPT !.plan = b.plan, !.inp = In(status, answer, FALSE)])
  /\ UNCHANGED <<now, ticks, probe>>

(* ------------------- the entitlement predicate alone ------------------ *)
ProbeTimes == 0 .. MaxProbeTime

CheckEntitlement(sub, expiry, at) ==
  /\ probe' = [checked |-> TRUE, is_subscribed |-> sub, subscription_expiry |-> expiry,
               at |-> at,
               active |-> is_subscription_active(
                            [NoUser EXCEPT !.is_subscribed = sub,
                                           !.subscription_expiry = expiry], at)]
  /\ UNCHANGED <<users, nextId, now, ticks, minted, issued, applied, requests, res, act>>

(* --------------------------- specification ---------------------------- *)
DoTick        == \E d \in TickSteps : Tick(d)
DoTickHour    == Tick(60)
DoTickDay     == Tick(MinutesPerDay)
DoRegister    == \E n \in Usernames, e \in Emails, p \in RegisterPasswords : Register(n, e, p)
DoSignup      == \E n \in Usernames, p \in RegisterPasswords : Register(n, n \o "@x", p)
DoLogin       == \E n \in Usernames, p \in Passwords : Login(n, p)
DoRefresh     == \E t \in Presentable : RefreshToken(t)
DoVerifyToken == \E t \in Presentable : VerifyToken(t)
DoReadVideos  ==
  \E ep \in VideoEndpoints, t \in Presentable, v \in VideoRows, c \in CategoryIds :
     /\ ep # "read_videos" => c = "none"
     /\ c = "unknown" => v = "no video"
     /\ ReadVideos(ep, t, v, c)
DoDeleteUser  == \E t \in Held, i \in KnownIds : DeleteUser(t, i)
(* UserUpdate bodies that set the email, the username, both or neither. *)
Payloads ==
  [email : Emails \cup {Unset}, username : Usernames \cup {Unset}, password : {Unset}]
DoUpdateUser  == \E t \in Held, i \in KnownIds, b \in Payloads : UpdateUser(t, i, b)
(* The UserUpdate body that moves a row to an email address no          *)
(* registration uses.                                                      *)
EmailPayloads ==
  [email : {"new@x"}, username : {Unset}, password : {Unset}]
DoUpdateEmail == \E t \in Held, i \in KnownIds, b \in EmailPayloads : UpdateUser(t, i, b)
(* UserUpdate bodies that also carry phone_number, a column with no       *)
(* uniqueness constraint.                                                  *)
ProfilePayloads ==
  [email : Emails \cup {Unset}, username : {Unset}, password : {Unset},
   phone_number : {Unset, "0991111111"}]
DoUpdateProfile ==
  \E t \in Held, i \in KnownIds, b \in ProfilePayloads : UpdateUser(t, i, b)
DoInitiate    ==
  \E t \in Held, p \in {PlanDay, PlanMonth, NoPlanId}, up \in BOOLEAN : InitiatePayment(t, p, up)
DoVerifyPayment ==
  \E t \in Held, r \in RefInputs, a \in ProviderAnswers, p \in BOOLEAN :
     VerifyPayment(t, r, a, p)
ResetTexts ==
  {jwt_text(m.tok) : m \in {k \in minted : k.by = "forgot_password"}}
    \cup {jwt_text(users[i].reset_token) :
            i \in {k \in DOMAIN users : users[k].reset_token # NoToken}}
    \cup {[len |-> ResetTokenLength, jwt |-> NoToken]}
DoForgot      == \E e \in Emails, m \in {"sent", "raise"} : ForgotPassword(e, m)
DoReset       == \E x \in ResetTexts, p \in {"password2", "pw2"} : ResetPassword(x, p)
DoStatus      == \E t \in Held : SubscriptionStatus(t)
DoWebhook     ==
  \E r \in RefInputs, s \in {"successful", "failed"}, a \in ProviderAnswers : Webhook(r, s, a)
(* References that name a user id and the one-day plan, paid for. *)
PaidRefs == {<<Lit, Hex32(a), Hex32(PlanDay)>> : a \in KnownIds}
DoPaidWebhook == \E r \in PaidRefs, a \in ProviderAnswers : Webhook(r, "successful", a)
DoPaidVerify  ==
  \E t \in Held, r \in PaidRefs, p \in BOOLEAN : VerifyPayment(t, r, "successful", p)
DoResume      == \E k \in 1 .. Len(requests) : Resume(k)

(* Sessions: issuing, presenting and outliving tokens. *)
NextAuth ==
  \/ DoTick \/ DoRegister \/ DoLogin \/ DoRefresh \/ DoVerifyToken
  \/ DoDeleteUser \/ DoResume \/ Respond

SpecAuth == Init /\ [][NextAuth]_vars

(* User.is_subscription_active on every kind of row. *)
NextEntitle ==
  \E sub \in BOOLEAN, e \in {NullTime} \cup ProbeTimes, t \in ProbeTimes :
     CheckEntitlement(sub, e, t)

SpecEntitle == Init /\ [][NextEntitle]_vars

(* Webhook deliveries that overlap. *)
NextConc ==
  \/ DoTickDay \/ DoSignup \/ DoWebhook \/ DoResume \/ Respond

SpecConc == Init /\ [][NextConc]_vars

(* Identities: registrations, renames and deletions that overlap. *)
NextUniq ==
  \/ DoRegister \/ DoUpdateUser \/ DoDeleteUser \/ DoResume \/ Respond

SpecUniq == Init /\ [][NextUniq]_vars

(* The gate in front of the videos, while subscriptions come and lapse. *)
NextGate ==
  \/ DoTickDay \/ DoSignup \/ DoReadVideos \/ DoWebhook \/ DoResume \/ Respond

SpecGate == Init /\ [][NextGate]_vars

(* The caller's row behind a token, while subscriptions and profiles change. *)
NextFresh ==
  \/ DoTickHour \/ DoSignup \/ DoVerifyToken \/ DoPaidWebhook \/ DoUpdateEmail
  \/ DoResume \/ Respond

SpecFresh == Init /\ [][NextFresh]_vars

(* A subscriber's journey: sign up, log in, pay, ask, and let time pass. *)
NextJourney ==
  \/ DoTickDay \/ DoSignup \/ DoLogin \/ DoStatus \/ DoWebhook \/ DoResume \/ Respond

SpecJourney == Init /\ [][NextJourney]_vars

(* The users table under every handler that writes to a row. *)
NextStore ==
  \/ DoSignup \/ DoUpdateEmail \/ DoForgot \/ DoReset
  \/ DoPaidVerify \/ DoPaidWebhook \/ DoResume \/ Respond

SpecStore == Init /\ [][NextStore]_vars

(* UserUpdate bodies with a password that set an email, a username, both *)
(* or neither, to values no registration uses.                             *)
FramePayloads ==
  [email : {Unset, "new@x"}, username : {Unset, "cat"}, password : {"password2"}]
DoUpdateFirst == \E t \in Held, b \in FramePayloads : UpdateUser(t, FirstId, b)

(* Updates of a row that is subscribed and holds a reset token, by its    *)
(* owner and by others, next to another row.                               *)
NextFrame ==
  \/ DoSignup \/ DoPaidWebhook \/ DoForgot \/ DoUpdateFirst \/ DoResume \/ Respond

SpecFrame == Init /\ [][NextFrame]_vars

(* Profile edits by the signed-up users. *)
NextProfile ==
  \/ DoSignup \/ DoLogin \/ DoUpdateProfile \/ DoDeleteUser \/ DoResume \/ Respond

SpecProfile == Init /\ [][NextProfile]_vars

(* The password-reset flow over time. *)
NextReset ==
  \/ DoTick \/ DoSignup \/ DoForgot \/ DoReset \/ DoResume \/ Respond

SpecReset == Init /\ [][NextReset]_vars

(* Transaction references from initiation to activation. *)
NextRef ==
  \/ DoSignup \/ DoInitiate \/ DoVerifyPayment \/ DoWebhook \/ DoResume \/ Respond

SpecRef == Init /\ [][NextRef]_vars

(* Payments: verification and the provider's webhook, over the days. *)
Next ==
  \/ DoTickDay \/ DoSignup \/ DoVerifyPayment \/ DoWebhook \/ DoResume \/ Respond

Spec == Init /\ [][Next]_vars

(* ============================== claims ================================ *)
TokenResolves(tok) ==
  /\ tok.sig = "ok"
  /\ tok.exp >= now
  /\ tok.token_type = "access"
  /\ tok.user_id \in DOMAIN users

Entitled(u) ==
  u.is_subscribed /\ (u.subscription_expiry = NullTime \/ u.subscription_expiry > now)

(* C1: the entitlement check is true exactly when is_subscribed and      *)
(* (expiry is null or expiry > now), for every principal record.          *)
C1_EntitlementTruthTable ==
  probe.checked =>
    probe.active = (probe.is_subscribed /\
                      (probe.subscription_expiry = NullTime
                         \/ probe.subscription_expiry > probe.at))

(* The handler behind the guard ran: the request got as far as the      *)
(* handler's first await.                                                   *)
C2_HandlerRan == res.inp.answer \in VideoRows

(* What get_current_user asks of the token itself. *)
C2_TokenValid(tok) == tok.sig = "ok" /\ tok.exp >= now /\ tok.token_type = "access"

(* The guard let the request through on the row r: the token is valid    *)
(* and names r, and r satisfies the entitlement predicate at the time of  *)
(* the request; r is the stored row unless another request ran since.     *)
C2_Passed(tok, r, met) ==
  /\ C2_TokenValid(tok)
  /\ r.id = tok.user_id
  /\ Entitled(r)
  /\ met = 0 => (TokenResolves(tok) /\ r = users[tok.user_id])

(* C2: a subscription-only video endpoint runs its handler only for a    *)
(* token that resolved to a principal that was entitled when the guard    *)
(* read it; a token that does not resolve gets 401, a resolved principal  *)
(* that is not entitled gets 403, and neither carries a principal or      *)
(* video data.                                                             *)
C2_VideoGate ==
  /\ res.op \in VideoEndpoints =>
       /\ C2_HandlerRan => C2_Passed(res.tok, res.user, act.q.met)
       /\ ~C2_HandlerRan =>
            /\ act = NoAct
            /\ res.status \in {401, 403}
            /\ res.user = NoUser
            /\ res.status = 401 <=> ~TokenResolves(res.tok)
            /\ res.status = 403 <=>
                 (TokenResolves(res.tok) /\ ~Entitled(users[res.tok.user_id]))
  /\ \A k \in 1 .. Len(requests) :
       requests[k].op \in VideoEndpoints
         => C2_Passed(requests[k].tok, requests[k].was, requests[k].met)

C2_Witness ==
  /\ res.op = "search_videos"
  /\ res.status = 200
  /\ C2_HandlerRan
  /\ res.user.subscription_expiry > now
  /\ act.q.met = 0

(* The handler answers after the caller's row has been written to by a   *)
(* request that ran while it waited for its query.                        *)
C2_WitnessOverlap ==
  /\ res.op = "search_videos"
  /\ res.status = 200
  /\ act.q.met = 1
  /\ res.user # users[res.tok.user_id]

(* C3: the access token created by login or register for principal U     *)
(* resolves to the principal with U's id while it is unexpired and U      *)
(* exists.                                                                 *)
C3_IssuedTokenResolves ==
  \A m \in minted :
    (/\ m.by \in {"login", "register"}
     /\ m.tok.token_type = "access"
     /\ m.tok.exp >= now
     /\ m.uid \in DOMAIN users)
    => /\ get_current_user(m.tok, users, now).status = 200
       /\ get_current_user(m.tok, users, now).user.id = m.uid

C3_Witness ==
  /\ res.op = "verify_token"
  /\ res.status = 200
  /\ now > res.tok.exp - ACCESS_TOKEN_EXPIRE_MINUTES
  /\ \E m \in minted : m.by = "login" /\ m.tok = res.tok /\ m.uid = res.user.id

(* C4: a token whose exp is in the past is refused with 401 and yields   *)
(* no principal, whatever its signature and whether or not its principal  *)
(* exists.                                                                 *)
C4_ExpiredRejected ==
  /\ \A t \in Presentable :
       t.exp < now => get_current_user(t, users, now) = [status |-> 401, user |-> NoUser]
  /\ (res.op = "verify_token" /\ res.tok.exp < now) => (res.status = 401 /\ res.user = NoUser)

C4_Witness ==
  /\ res.op = "verify_token"
  /\ res.status = 401
  /\ res.tok.exp < now
  /\ res.tok.sig = "ok"
  /\ res.tok.token_type = "access"
  /\ res.tok.user_id \in DOMAIN users

(* C5: get_current_user refuses every refresh token with 401; the        *)
(* refresh endpoint refuses every token that is not a refresh token with  *)
(* 401 and creates no token.                                               *)
C5_KindsState ==
  /\ (res.op = "verify_token" /\ res.tok.token_type = "refresh")
       => (res.status = 401 /\ res.user = NoUser)
  /\ (res.op = "refresh" /\ res.tok.token_type # "refresh")
       => (res.status = 401 /\ res.out = NoToken)

C5_TokenKinds ==
  /\ []C5_KindsState
  /\ [][(res'.op = "refresh" /\ res'.tok.token_type # "refresh") => minted' = minted]_vars

C5_Witness ==
  /\ res.op = "refresh"
  /\ res.status = 401
  /\ res.tok.token_type = "access"
  /\ res.tok.sig = "ok"
  /\ res.tok.exp >= now

(* C6: once principal U is deleted, no unexpired token created for U     *)
(* resolves to any principal: get_current_user answers 401.               *)
C6_DeletedPrincipal ==
  /\ \A m \in minted :
       (m.uid # NoId /\ m.uid \notin DOMAIN users)
         => get_current_user(m.tok, users, now) = [status |-> 401, user |-> NoUser]
  /\ (res.op = "verify_token"
        /\ \E m \in minted : m.tok = res.tok /\ m.uid # NoId /\ m.uid \notin DOMAIN users)
       => res.status = 401

C6_Witness ==
  /\ res.op = "verify_token"
  /\ res.status = 401
  /\ res.tok.sig = "ok"
  /\ res.tok.token_type = "access"
  /\ res.tok.exp >= now
  /\ \E m \in minted : m.tok = res.tok /\ m.uid \notin DOMAIN users
  /\ \E i \in DOMAIN users : users[i].username = res.tok.sub

(* C7: the principal get_current_user returns is the row now in the      *)
(* store, with the subscription flag and expiry of the moment of the      *)
(* call, not values from the time the token was created.                  *)
C7_FreshPrincipal ==
  /\ (res.op = "verify_token" /\ res.status = 200) => res.user = users[res.tok.user_id]
  /\ \A t \in Held :
       get_current_user(t, users, now).status = 200
         => get_current_user(t, users, now).user = users[t.user_id]

C7_Witness ==
  /\ res.op = "verify_token"
  /\ res.status = 200
  /\ res.user.email # res.tok.email
  /\ res.user.is_subscribed
  /\ \E p \in DOMAIN SubscriptionPlan :
       res.user.subscription_expiry - SubscriptionPlan[p] * MinutesPerDay
         > res.tok.exp - ACCESS_TOKEN_EXPIRE_MINUTES

Activation ==
  /\ Len(applied') = Len(applied) + 1
  /\ res'.op \in {"verify_payment", "webhook"}
  /\ res'.user.id \in DOMAIN users

(* C8: an activation of a principal whose subscription is active sets    *)
(* the expiry to the current expiry plus the plan's duration.             *)
C8_RenewalExtends ==
  [][(Activation
        /\ users[res'.user.id].is_subscribed
        /\ users[res'.user.id].subscription_expiry > now)
       => users'[res'.user.id].subscription_expiry =
            users[res'.user.id].subscription_expiry
              + SubscriptionPlan[uuid_UUID(res'.ref[3])] * MinutesPerDay]_vars

(* C9: applying a transaction reference that has been applied before     *)
(* leaves is_subscribed and subscription_expiry of every principal        *)
(* unchanged.                                                              *)
C9_ReplayIdempotent ==
  [][(Activation /\ \E k \in 1 .. Len(applied) : applied[k] = res'.ref)
       => \A i \in DOMAIN users :
            /\ users'[i].is_subscribed = users[i].is_subscribed
            /\ users'[i].subscription_expiry = users[i].subscription_expiry]_vars

(* C10: of two webhook requests that carry the same reference and        *)
(* overlap, at most one performs the activation write: no request writes  *)
(* an activation for a reference for which one has been written since     *)
(* that request began.                                                     *)
C10_OneWritePerReference ==
  [][(/\ act'.q.op = "webhook"
      /\ Len(applied') = Len(applied) + 1)
     => \A k \in (act'.q.seen + 1) .. Len(applied) : applied[k] # act'.q.ref]_vars

(* C11: a successful activation of a principal that was unsubscribed or  *)
(* lapsed leaves it, in the one write, with is_subscribed true and expiry *)
(* now + the plan's duration, and the entitlement predicate true.         *)
C11_Lapsed(u) ==
  ~u.is_subscribed \/ (u.subscription_expiry # NullTime /\ u.subscription_expiry < now)

C11_ActivationFromInactive ==
  (/\ res.op \in {"verify_payment", "webhook"}
   /\ res.was # NoUser
   /\ C11_Lapsed(res.was))
  => /\ users[res.was.id].is_subscribed
     /\ users[res.was.id].subscription_expiry
          = now + SubscriptionPlan[uuid_UUID(res.ref[3])] * MinutesPerDay
     /\ Entitled(users[res.was.id])
     /\ is_subscription_active(users[res.was.id], now)
     /\ res.user = users[res.was.id]

C11_Witness ==
  /\ res.op = "webhook"
  /\ res.status = 200
  /\ res.was.is_subscribed
  /\ res.was.subscription_expiry < now
  /\ res.user.subscription_expiry = now + SubscriptionPlan[PlanDay] * MinutesPerDay

C11_WitnessUnsubscribed ==
  /\ res.op = "verify_payment"
  /\ res.status = 200
  /\ ~res.was.is_subscribed
  /\ Entitled(users[res.tok.user_id])

(* The reference does not name a plan (and, for the webhook, a user) of   *)
(* the store: too few pieces, a piece that is no UUID, or an unknown id.  *)
BadPlanRef(ref) ==
  \/ Len(ref) < 3
  \/ uuid_UUID(ref[3]) \notin DOMAIN SubscriptionPlan
BadUserRef(ref) ==
  \/ Len(ref) < 3
  \/ uuid_UUID(ref[2]) \notin DOMAIN users

C12_WrittenTogether ==
  \A i \in DOMAIN users : users[i].is_subscribed <=> users[i].subscription_expiry # NullTime

(* C12: a verify_payment or webhook request that fails or does not       *)
(* activate (status not successful, malformed or unknown reference,       *)
(* unknown plan or user, provider call raising) leaves the users table    *)
(* unchanged; and in every store state each row has its flag and its      *)
(* expiry both written or both unwritten.                                  *)
C12_Failing ==
  \/ /\ res'.op = "verify_payment"
     /\ \/ res'.status # 200
        \/ res'.inp.answer # "successful"
        \/ BadPlanRef(res'.ref)
  \/ /\ res'.op = "webhook"
     /\ \/ res'.status # 200
        \/ res'.inp.status # "successful"
        \/ res'.inp.answer = "raise"
        \/ BadPlanRef(res'.ref)
        \/ BadUserRef(res'.ref)

C12_FailureChangesNothing ==
  /\ []C12_WrittenTogether
  /\ [][C12_Failing => users' = users]_vars

(* C13: verify_payment answers a provider status that is not successful  *)
(* with 402, a malformed or unknown transaction reference with 400 and a  *)
(* failed provider call with 502, never one with the status of another.   *)
C13_DistinctErrorKinds ==
  (res.op = "verify_payment" /\ res.inp # NoInput) =>
    /\ res.inp.answer = "failed" => res.status = 402
    /\ res.inp.answer = "raise" => res.status = 502
    /\ (res.inp.answer = "successful" /\ BadPlanRef(res.ref)) => res.status = 400

(* C14: the webhook writes an activation only when the provider's own    *)
(* record of the reference says the payment succeeded; a payload that     *)
(* only carries status "successful" and a reference naming an existing    *)
(* user and plan changes no row.                                           *)
C14_WebhookNeedsConfirmation ==
  [][(res'.op = "webhook" /\ res'.inp.answer # "successful") => users' = users]_vars

(* C15: the webhook answers every payload it has processed with the      *)
(* success acknowledgment, whether it applied it, had applied it before,  *)
(* found a status that is not successful, or found no such user or plan;  *)
(* stated for payloads whose reference has its three parts and for which  *)
(* the provider could be reached.                                          *)
C15_WebhookAcknowledges ==
  (res.op = "webhook" /\ res.inp.answer # "raise" /\ Len(res.ref) >= 3) => res.status = 200

(* C16: register with a username, or with an email, that a stored        *)
(* principal has when the handler looks for it answers 400, stores no     *)
(* principal, creates no token and leaves every stored row as it was.     *)
C16_Refused ==
  /\ res'.op = "register"
  /\ res'.status = 400
  /\ res'.out = NoToken
  /\ users' = users
  /\ nextId' = nextId
  /\ minted' = minted

C16_DuplicateRegisterRefused ==
  /\ [][\A n \in Usernames, e \in Emails, p \in RegisterPasswords :
          (Register(n, e, p) /\ \E i \in DOMAIN users : users[i].username = n)
          => C16_Refused]_vars
  /\ [][(/\ act'.q.op = "register"
         /\ act'.q.pc = "check"
         /\ \E i \in DOMAIN users : users[i].email = act'.q.row.email)
        => C16_Refused]_vars

C16_Witness ==
  /\ res.op = "register"
  /\ res.status = 400
  /\ Cardinality(DOMAIN users) = 1
  /\ \E i \in DOMAIN users : users[i].username # "" /\ users[i].email # users[i].username \o "@x"

(* C17: in every store state, whatever register, update_user and         *)
(* delete_user requests ran and however they overlapped, no two           *)
(* principals have the same username and no two have the same email.      *)
C17_IdentitiesUnique ==
  \A i, j \in DOMAIN users :
    i # j => (users[i].username # users[j].username /\ users[i].email # users[j].email)

C17_Witness ==
  /\ res.op = "register"
  /\ res.status = 500
  /\ act.q.pc = "commit"
  /\ act.q.met = 1
  /\ \E i \in DOMAIN users : users[i].username = res.was.username

C17_WitnessRename ==
  /\ res.op = "update_user"
  /\ res.status = 500
  /\ Cardinality(DOMAIN users) = 2

(* C18: login with a known username and a wrong password is answered     *)
(* exactly as the same request is answered when that user does not        *)
(* exist: 401 with the same detail and headers, and no principal data.    *)
C18_LoginIndistinguishable ==
  /\ \A n \in Usernames, p \in Passwords, i \in DOMAIN users :
       (users[i].username = n /\ ~verify_password(p, users[i].hashed_password))
       => /\ get_user_by_username(Without(users, i), n) = NoUser
          /\ login_answer(users, n, p) = login_answer(Without(users, i), n, p)
          /\ login_answer(users, n, p).status = 401
  /\ (res.op = "login" /\ res.out = NoToken)
       => res = R("login", LoginRefused.status, NoToken, NoToken, NoUser, NoRef)

C18_Witness ==
  /\ res.op = "login"
  /\ res.status = 401
  /\ \A n \in Usernames : get_user_by_username(users, n) # NoUser

C18_WitnessUnknown ==
  /\ res.op = "login"
  /\ res.status = 401
  /\ \E n \in Usernames : get_user_by_username(users, n) = NoUser
  /\ \E n \in Usernames : get_user_by_username(users, n) # NoUser

(* C19: whenever authenticate_user accepts the username and password,    *)
(* login ends in a success response that carries the access token it      *)
(* created; the response model does not turn it into an error.            *)
C19_LoginDelivers ==
  (res.op = "login" /\ res.user # NoUser) =>
    /\ res.status = 200
    /\ res.out.token_type = "access"
    /\ res.out.sub = res.user.username

(* C20: the access token that the refresh endpoint creates from a valid  *)
(* refresh token of principal U carries U's access claims, and            *)
(* get_current_user accepts it and returns U.                              *)
C20_RefreshedTokenAccepted ==
  (/\ res.op = "refresh"
   /\ res.out # NoToken
   /\ get_user_by_username(users, res.tok.sub) # NoUser)
  => /\ res.out.user_id = get_user_by_username(users, res.tok.sub).id
     /\ get_current_user(res.out, users, now).status = 200
     /\ get_current_user(res.out, users, now).user.username = res.tok.sub

(* C21: the status endpoint returns is_subscribed and                    *)
(* subscription_expiry of the caller's stored row as the request read     *)
(* it, and is_active = is_subscribed and (expiry is null or expiry > now) *)
(* on that row; the row read is the stored row, and it still is at the    *)
(* answer unless another request was served while this one waited for     *)
(* its plan query; the endpoint writes nothing.                            *)
C21_StatusState ==
  /\ (res.op = "subscription_status" /\ res.status = 200) =>
       /\ res.user.id = res.tok.user_id
       /\ res.is_active = Entitled(res.user)
       /\ act # NoAct => res.user = act.q.was
       /\ (act = NoAct \/ act.q.met = 0) =>
            /\ res.user = users[res.tok.user_id]
            /\ res.is_active = Entitled(users[res.tok.user_id])
  /\ \A k \in 1 .. Len(requests) :
       (requests[k].op = "subscription_status" /\ requests[k].met = 0)
         => requests[k].was = users[requests[k].tok.user_id]

C21_StatusReportsStore ==
  /\ []C21_StatusState
  /\ [][(res'.op = "subscription_status" \/ act'.q.op = "subscription_status")
         => <<users, nextId, minted, issued, applied>>' = <<users, nextId, minted, issued, applied>>]_vars

C21_Witness ==
  /\ res.op = "subscription_status"
  /\ res.status = 200
  /\ res.user.is_subscribed
  /\ res.user.subscription_expiry <= now
  /\ ~res.is_active

(* C22: a principal active with expiry e stops being entitled by the     *)
(* passage of time alone: the check is true at every t < e and false at   *)
(* every t >= e, and the clock's advance writes no row.                   *)
C22_LapseState ==
  /\ \A i \in DOMAIN users :
       users[i].is_subscribed =>
         /\ StatusIsActive(users[i], now) <=> now < users[i].subscription_expiry
         /\ is_subscription_active(users[i], now) <=> now < users[i].subscription_expiry
  /\ (res.op = "subscription_status" /\ res.status = 200 /\ res.user.is_subscribed)
       => (res.is_active <=> now < res.user.subscription_expiry)

C22_LapseByTimeAlone ==
  /\ []C22_LapseState
  /\ [][now' # now => users' = users]_vars

C22_Witness ==
  /\ res.op = "subscription_status"
  /\ res.status = 200
  /\ ~res.is_active
  /\ users[res.tok.user_id].is_subscribed
  /\ users[res.tok.user_id].subscription_expiry = now
  /\ ticks > 0

(* C23: a principal leaves the store only through DELETE /users/{id}     *)
(* called by an admin; a caller who is not an admin gets 403 and the      *)
(* target stays stored.                                                    *)
C23_DeleteAdminOnly ==
  [][\A i \in DOMAIN users :
       i \notin DOMAIN users'
         => /\ res'.op = "delete_user"
            /\ get_current_user(res'.tok, users, now).user.is_admin]_vars

(* C24: end to end: after register(U, P), login(U, P) succeeds and its   *)
(* token resolves to U's id; the entitlement check fails for U while U    *)
(* has never been activated; after an activation of U with the 30-day     *)
(* plan the check succeeds and the expiry is the activation time plus 30  *)
(* days.                                                                   *)
C24_EndToEnd ==
  /\ (res.op = "login" /\ res.user # NoUser)
       => /\ res.status = 200
          /\ get_current_user(res.out, users, now).status = 200
          /\ get_current_user(res.out, users, now).user.id = res.user.id
  /\ (res.op = "subscription_status" /\ res.status = 200 /\ ~res.user.is_subscribed)
       => ~res.is_active
  /\ (res.op \in {"verify_payment", "webhook"} /\ res.was # NoUser
        /\ ~res.was.is_subscribed /\ uuid_UUID(res.ref[3]) = PlanMonth)
       => /\ Entitled(users[res.was.id])
          /\ users[res.was.id].subscription_expiry = now + 30 * MinutesPerDay

(* The principal a reference was issued to: the id whose text follows    *)
(* "sub-" in it.                                                           *)
IssuedTo(ref) == ref[2].u

(* C25: the reference initiate-payment returned to U round-trips: when   *)
(* U presents it to verify_payment, or the provider posts it to the       *)
(* webhook, and the provider reports it successful, it is accepted and U  *)
(* is the principal that is activated.                                     *)
C25_ReferenceRoundTrip ==
  (/\ res.op \in {"verify_payment", "webhook"}
   /\ res.ref \in issued
   /\ res.inp.answer = "successful"
   /\ res.op = "webhook" => res.inp.status = "successful"
   /\ res.op = "verify_payment" => res.tok.user_id = IssuedTo(res.ref))
  => /\ res.status = 200
     /\ res.was.id = IssuedTo(res.ref)
     /\ users[IssuedTo(res.ref)].is_subscribed

(* C26: verify_payment activates the caller only for a reference that    *)
(* was issued to the caller; in particular never for a reference that     *)
(* names another principal.                                                *)
C26_OnlyOwnReference ==
  (res.op = "verify_payment" /\ res.status = 200 /\ res.was # NoUser)
    => /\ Len(res.ref) >= 2
       /\ res.ref[2].u = res.tok.user_id

(* C27: in every store state a row with is_subscribed true has an        *)
(* expiry; is_subscribed never goes back from true to false; and either   *)
(* field is written only by an activation, which sets both.               *)
C27_FlagHasExpiry ==
  \A i \in DOMAIN users : users[i].is_subscribed => users[i].subscription_expiry # NullTime

C27_SubscriptionFields ==
  /\ []C27_FlagHasExpiry
  /\ [][\A i \in DOMAIN users \cap DOMAIN users' :
          /\ users[i].is_subscribed => users'[i].is_subscribed
          /\ (users'[i].is_subscribed # users[i].is_subscribed
               \/ users'[i].subscription_expiry # users[i].subscription_expiry)
             => /\ res'.op \in {"verify_payment", "webhook"}
                /\ users'[i].is_subscribed
                /\ users'[i].subscription_expiry # NullTime]_vars
  /\ [][\A i \in DOMAIN users' \ DOMAIN users :
          ~users'[i].is_subscribed /\ users'[i].subscription_expiry = NullTime]_vars

C27_Witness ==
  \E i \in DOMAIN users :
    /\ users[i].is_subscribed
    /\ users[i].reset_token # NoToken
    /\ users[i].email # users[i].username \o "@x"
    /\ res.op = "reset_password"
    /\ res.tok = users[i].reset_token

(* C28: PUT /users/{id}, whatever its payload and also when it carries   *)
(* a password, leaves the target's hashed_password, is_admin,             *)
(* is_subscribed, subscription_expiry and reset_token and every other     *)
(* row as they were; email and username change only when the payload     *)
(* sets them, and to the payload's value; a request that ran alone        *)
(* answers with the row it stored.                                         *)
C28_Framed(old, new, payload) ==
  /\ new.id = old.id
  /\ new.hashed_password = old.hashed_password
  /\ new.is_admin = old.is_admin
  /\ new.is_subscribed = old.is_subscribed
  /\ new.subscription_expiry = old.subscription_expiry
  /\ new.reset_token = old.reset_token
  /\ new.phone_number = old.phone_number
  /\ new.email \in {old.email} \cup ({payload.email} \ {Unset})
  /\ new.username \in {old.username} \cup ({payload.username} \ {Unset})

(* The request has run alone: no other request was served between its    *)
(* read of the row and its answer.                                         *)
C28_Alone == act'.q.met = 0 /\ act'.to = "done"

C28_UpdateFrame ==
  /\ [][(res'.op = "update_user" /\ act' = NoAct) => users' = users]_vars
  /\ [][act'.q.op = "update_user" =>
          /\ DOMAIN users' = DOMAIN users
          /\ \A j \in DOMAIN users \ {act'.q.uid} : users'[j] = users[j]
          /\ act'.q.uid \in DOMAIN users
               => C28_Framed(users[act'.q.uid], users'[act'.q.uid], act'.q.payload)
          /\ (act'.q.pc = "refresh" \/ act'.to = "commit" \/ res'.status \in {404, 500})
               => users' = users
          /\ (C28_Alone /\ res'.status = 200)
               => /\ res'.user = users'[act'.q.uid]
                  /\ \A c \in {"email", "username"} :
                       act'.q.payload[c] # Unset => users'[act'.q.uid][c] = act'.q.payload[c]]_vars

C28_Witness ==
  /\ res.op = "update_user"
  /\ res.status = 200
  /\ res.payload.password # Unset
  /\ res.payload.email # Unset
  /\ res.user.email # res.was.email
  /\ res.user.username # res.was.username
  /\ DOMAIN users # {res.user.id}
  /\ res.user.is_subscribed
  /\ res.user.reset_token # NoToken

(* C29: reset_password succeeds exactly for an unexpired token that is   *)
(* the reset_token now stored for the user its subject names, and then    *)
(* replaces the hash and clears the stored token; a token used before or  *)
(* superseded by a newer forgot_password is refused with 400 and the hash *)
(* is left as it was.                                                      *)
C29_Current(tok) ==
  /\ tok # NoToken
  /\ tok.exp > now
  /\ \E i \in DOMAIN users : users[i].email = tok.sub /\ users[i].reset_token = tok

C29_ResetSingleUse ==
  [][res'.op = "reset_password" =>
       IF C29_Current(res'.tok)
       THEN /\ res'.status = 200
            /\ users'[res'.user.id].reset_token = NoToken
            /\ users'[res'.user.id].hashed_password # users[res'.user.id].hashed_password
       ELSE /\ res'.status = 400
            /\ users' = users]_vars

(* C30: a PUT /users/{id} request changes a row only when the caller is  *)
(* the principal of that row or an admin; any other authenticated caller  *)
(* gets                                                                    *)
(* 403 and the row stays as it was.                                        *)
C30_UpdateOwnerOrAdmin ==
  [][(act'.q.op = "update_user" /\ get_current_user(act'.q.tok, users, now).status = 200)
       => LET caller == get_current_user(act'.q.tok, users, now).user
          IN \A i \in DOMAIN users :
               (i # caller.id /\ ~caller.is_admin /\ i \in DOMAIN users')
                 => users'[i] = users[i]]_vars

====
